---- MODULE Spec2Model ----
(***************************************************************************)
(* A model of the crawler command of tropipay-web-crawler                  *)
(* (src/src/commands/crawler.command.ts, the documented version of the     *)
(* class, lines 275-589): the input validation of run, the level /         *)
(* batch / merge loop of runCrawler, processPage with the URL normalizer,  *)
(* extractUrl and writeFile.                                               *)
(*                                                                         *)
(* JavaScript strings are modelled as sequences of one-character strings,  *)
(* so that startsWith, endsWith, includes, indexOf, replace and substring  *)
(* are computed character by character.  undefined / null / '' (all        *)
(* falsy) are the empty sequence.                                          *)
(***************************************************************************)
EXTENDS Integers, Sequences, FiniteSets, TLC

(***************************************************************************)
(* Bounds of the model.                                                    *)
(***************************************************************************)
\* largest --maxdist value supplied on the command line
MaxDepth == 4
\* largest number of anchor elements on one fetched page
MaxAnchors == 2
\* batch size: the source sets 100 (line 282); the model scales it down so
\* that a level is split into several batches
SIMULTANEOUS_REQUESTS == 2

(***************************************************************************)
(* String primitives of JavaScript on character sequences.                 *)
(***************************************************************************)
startsWith(s, p) == Len(p) <= Len(s) /\ SubSeq(s, 1, Len(p)) = p

endsWith(s, p) == Len(p) <= Len(s) /\ SubSeq(s, Len(s) - Len(p) + 1, Len(s)) = p

\* The 1-based position of the first occurrence of sub in s, 0 when there is
\* none (JavaScript's indexOf is this number minus 1).
indexOf(s, sub) ==
    LET hits == {i \in 1..(Len(s) - Len(sub) + 1) : SubSeq(s, i, i + Len(sub) - 1) = sub}
    IN  IF hits = {} THEN 0 ELSE CHOOSE i \in hits : \A j \in hits : i <= j

includes(s, sub) == indexOf(s, sub) # 0

\* String.prototype.replace with a string pattern: the first occurrence only.
replaceFirst(s, pat, rep) ==
    LET i == indexOf(s, pat)
    IN  IF i = 0 THEN s
        ELSE SubSeq(s, 1, i - 1) \o rep \o SubSeq(s, i + Len(pat), Len(s))

\* Array.prototype.includes
arrIncludes(arr, item) == \E i \in 1..Len(arr) : arr[i] = item

pushUnique(arr, item) == IF arrIncludes(arr, item) THEN arr ELSE Append(arr, item)

(***************************************************************************)
(* String literals of the source.                                          *)
(***************************************************************************)
sHttp == <<"h", "t", "t", "p">>
sSlash == <<"/">>
sHash == <<"#">>
sQuery == <<"?">>
sMailto == <<"m", "a", "i", "l", "t", "o">>
sWww == <<"w", "w", "w", ".">>
sSep == <<":", "/", "/">>
sSepWww == <<":", "/", "/", "w", "w", "w", ".">>

EXCLUDED_HREFS == <<sSlash, sHash>>

(***************************************************************************)
(* The URL normalizer.                                                     *)
(***************************************************************************)
addHttpIfMissing(root, href) ==
    IF startsWith(href, sHttp) THEN href
    ELSE IF startsWith(href, sSlash) /\ endsWith(root, sSlash)
         THEN root \o SubSeq(href, 2, Len(href))
    ELSE IF ~startsWith(href, sSlash) /\ ~endsWith(root, sSlash)
         THEN root \o sSlash \o href
    ELSE root \o href

\* mutant: www. is never added
addWWWNever(url) == url

addWWWIfMissing(url) ==
    IF includes(url, sWww) THEN url ELSE replaceFirst(url, sSep, sSepWww)

deleteParamsFromUrl(url) ==
    IF includes(url, sQuery) THEN SubSeq(url, 1, indexOf(url, sQuery) - 1) ELSE url

processHrefValue(root, href) ==
    deleteParamsFromUrl(addWWWIfMissing(addHttpIfMissing(root, href)))

(***************************************************************************)
(* validateUrl: the regular expression                                     *)
(*   /^(https?|ftp|file):\/\/[-A-Z0-9+&@#\/%?=~_|!:,.;]*[-A-Z0-9+&@#\/%=~_|]/i *)
(* is anchored at the start only, so it matches when a scheme and "://"    *)
(* are followed by some run of characters of the first class that ends in  *)
(* a character of the second class.                                        *)
(***************************************************************************)
UpperCase == <<"A", "B", "C", "D", "E", "F", "G", "H", "I", "J", "K", "L", "M",
               "N", "O", "P", "Q", "R", "S", "T", "U", "V", "W", "X", "Y", "Z">>
LowerCase == <<"a", "b", "c", "d", "e", "f", "g", "h", "i", "j", "k", "l", "m",
               "n", "o", "p", "q", "r", "s", "t", "u", "v", "w", "x", "y", "z">>
Digits == {"0", "1", "2", "3", "4", "5", "6", "7", "8", "9"}

toLowerChar(c) ==
    IF \E i \in 1..Len(UpperCase) : UpperCase[i] = c
    THEN LowerCase[CHOOSE i \in 1..Len(UpperCase) : UpperCase[i] = c]
    ELSE c

toLowerCase(s) == [i \in 1..Len(s) |-> toLowerChar(s[i])]

\* [-A-Z0-9+&@#\/%=~_|] under the i flag
UrlLastChars ==
    {LowerCase[i] : i \in 1..Len(LowerCase)} \cup {UpperCase[i] : i \in 1..Len(UpperCase)}
    \cup Digits \cup {"-", "+", "&", "@", "#", "/", "%", "=", "~", "_", "|"}

\* [-A-Z0-9+&@#\/%?=~_|!:,.;] under the i flag
UrlBodyChars == UrlLastChars \cup {"?", "!", ":", ",", ".", ";"}

UrlSchemes == {sHttp, sHttp \o <<"s">>, <<"f", "t", "p">>, <<"f", "i", "l", "e">>}

validateUrl(url) ==
    \E scheme \in UrlSchemes :
        /\ startsWith(toLowerCase(url), scheme \o sSep)
        /\ LET rest == SubSeq(url, Len(scheme) + Len(sSep) + 1, Len(url))
           IN  \E j \in 1..Len(rest) :
                   /\ rest[j] \in UrlLastChars
                   /\ \A k \in 1..(j - 1) : rest[k] \in UrlBodyChars

(***************************************************************************)
(* extractUrl and processPage.  An HTTP exchange is                        *)
(*   [threw, status, data]: threw = the request rejected (network error);  *)
(*   data = <<>> for an empty body, <<page>> otherwise.                    *)
(* A page is what the element walk of processPage reads from the parsed    *)
(* document: [title, texts, anchors], anchors being the href attributes of *)
(* the a elements in document order (<<>> = no href attribute).            *)
(***************************************************************************)
Null == <<>>

\* mutant: the status of the answer is not looked at
extractUrlAnyStatus(resp) ==
    IF ~resp.threw /\ resp.data # <<>> THEN resp.data ELSE <<>>

extractUrl(resp) ==
    IF ~resp.threw /\ resp.status = 200 /\ resp.data # <<>> THEN resp.data ELSE <<>>

\* mutant: the containment test against the seed is dropped
anchorStepNoContainment(root, href, findedUrls) ==
    IF href # <<>> /\ ~arrIncludes(EXCLUDED_HREFS, href) /\ ~startsWith(href, sMailto)
    THEN pushUnique(findedUrls, processHrefValue(root, href))
    ELSE findedUrls

\* mutant: mailto hrefs are not excluded
anchorStepKeepsMailto(root, href, findedUrls) ==
    IF href # <<>> /\ ~arrIncludes(EXCLUDED_HREFS, href)
    THEN LET normalizedUrl == processHrefValue(root, href)
         IN  IF startsWith(normalizedUrl, root)
             THEN pushUnique(findedUrls, normalizedUrl)
             ELSE findedUrls
    ELSE findedUrls

\* lines 484-490: the value of normalizedUrl for one a element, Null when the
\* href is not handed to processHrefValue
normalizedUrlOf(root, href) ==
    IF href # <<>> /\ ~arrIncludes(EXCLUDED_HREFS, href) /\ ~startsWith(href, sMailto)
    THEN <<processHrefValue(root, href)>>
    ELSE Null

\* lines 481-496: the body of the element walk for one a element
anchorStep(root, href, findedUrls) ==
    IF href # <<>> /\ ~arrIncludes(EXCLUDED_HREFS, href) /\ ~startsWith(href, sMailto)
    THEN LET normalizedUrl == processHrefValue(root, href)
         IN  IF startsWith(normalizedUrl, root)
             THEN pushUnique(findedUrls, normalizedUrl)
             ELSE findedUrls
    ELSE findedUrls

RECURSIVE walkAnchors(_, _, _)
walkAnchors(root, anchors, findedUrls) ==
    IF anchors = <<>> THEN findedUrls
    ELSE walkAnchors(root, Tail(anchors), anchorStep(root, Head(anchors), findedUrls))

processPage(root, url, resp) ==
    LET htmlContent == extractUrl(resp)
    IN  IF htmlContent = <<>> THEN Null
        ELSE <<[url   |-> url,
                title |-> htmlContent[1].title,
                texts |-> htmlContent[1].texts,
                links |-> walkAnchors(root, htmlContent[1].anchors, <<>>)]>>

(***************************************************************************)
(* chunkArray                                                              *)
(***************************************************************************)
Min(a, b) == IF a <= b THEN a ELSE b

\* mutant: every slice takes one element too many
chunkArraySliceTooLong(arr, chunkSize) ==
    [k \in 1..((Len(arr) + chunkSize - 1) \div chunkSize) |->
        SubSeq(arr, (k - 1) * chunkSize + 1, Min(k * chunkSize + 1, Len(arr)))]

chunkArray(arr, chunkSize) ==
    [k \in 1..((Len(arr) + chunkSize - 1) \div chunkSize) |->
        SubSeq(arr, (k - 1) * chunkSize + 1, Min(k * chunkSize, Len(arr)))]

(***************************************************************************)
(* Program constants.                                                      *)
(***************************************************************************)
DEFAULT_MAXDIST == 1
DEFAULT_DB_NAME == "crawler.JSON"
NO_URL_MSG == "The --url parameter is mandatory."
INVALID_URL_MSG == "The --url parameter is not a valid URL."
INVALID_MAXDIST_MSG == "The --maxdist parameter must be greater than 0."

(***************************************************************************)
(* The inputs: command lines and the pages the web may serve.              *)
(***************************************************************************)
uSeed == sHttp \o sSepWww \o <<"x", "/">>          \* http://www.x/
uNoSlash == sHttp \o sSepWww \o <<"x">>            \* http://www.x
uBare == sHttp \o sSep \o <<"x", "/">>             \* http://x/
uNoScheme == sWww \o <<"x", "/">>                  \* www.x/
uNoHost == sHttp \o sSep                           \* http://

hA == <<"a">>                                      \* a
hB == <<"/", "b">>                                 \* /b
hC == <<"c">>
hAq == <<"/", "a", "?", "q">>                      \* /a?q
hAbsB == sHttp \o sSep \o <<"x", "/", "b">>        \* http://x/b
hOther == sHttp \o sSepWww \o <<"y", "/">>         \* http://www.y/
hLike == sHttp \o sSepWww \o <<"x", "x", "/">>     \* http://www.xx/
hMail == sMailto \o <<":", "m">>                   \* mailto:m
hFrag == <<"#", "f">>                              \* #f
hFtp == <<"f", "t", "p">> \o sSep \o <<"y">>        \* ftp://y
hWwwRel == sWww \o <<"z">>                         \* www.z
NoHref == <<>>

\* the --url values tried; <<>> is a missing option
OptionUrls == {<<>>, uNoScheme, uNoHost, uSeed, uNoSlash, uBare}

\* the --maxdist values tried (parseMaxdist yields a number), besides a missing
\* option: the refused ones, one and two levels, and the deepest crawl
OptionMaxdists == {-1, 0, 1, 2, MaxDepth}

Options ==
    {[url |-> u, hasMaxdist |-> FALSE, maxdist |-> 0] : u \in OptionUrls}
    \cup [url : OptionUrls, hasMaxdist : {TRUE}, maxdist : OptionMaxdists]

RECURSIVE SeqsUpTo(_, _)
SeqsUpTo(S, n) ==
    IF n = 0 THEN {<<>>}
    ELSE LET shorter == SeqsUpTo(S, n - 1)
         IN  shorter \cup {Append(q, x) : q \in shorter, x \in S}

\* The site: the seed's page and three pages under it.
uA == uSeed \o <<"a">>                             \* http://www.x/a
uB == uSeed \o <<"b">>                             \* http://www.x/b
uC == uSeed \o <<"c">>                             \* http://www.x/c
SeedUrls == {uSeed, uNoSlash, uBare}
\* a seed whose host is the single letter w
uW == sHttp \o sSep \o <<"w">>                     \* http://w
\* the seeds tried on a single page
ProbeSeeds == SeedUrls \cup {uW}
SiteUrls == SeedUrls \cup {uA, uB, uC}

\* The anchors a page of the site may carry: links to all three pages; a link
\* to b, a link to a with a query string and a link to another site; no link
\* that is followed.
AnchorChoices == {<<hA, hB, hC>>, <<hB, hAq, hOther>>, <<sHash, hMail, NoHref>>}

\* the href attributes tried on a single page
Hrefs == {NoHref, sHash, sSlash, hMail, sMailto, hFrag, hFtp, hWwwRel, hA, hB, hAq, hAbsB,
          hOther, hLike}

SitePages == [title : {"Home"}, texts : {"Welcome"}, anchors : AnchorChoices]

\* The link graphs tried: every assignment of those pages to the URLs of the
\* site (the three seeds name the same page).
Webs ==
    {[u \in SiteUrls |-> IF u \in SeedUrls THEN w[uSeed] ELSE w[u]] :
        w \in [{uSeed, uA, uB, uC} -> SitePages]}

\* What axios.get(url) may do on the web w: reject; answer 200 with the page
\* (a URL outside the site has none) or with an empty body; answer 404.
Responses(w, url) ==
    LET body == IF url \in DOMAIN w THEN <<w[url]>> ELSE <<>>
    IN  {[threw |-> TRUE, status |-> 0, data |-> <<>>],
         [threw |-> FALSE, status |-> 200, data |-> body],
         [threw |-> FALSE, status |-> 200, data |-> <<>>],
         [threw |-> FALSE, status |-> 404, data |-> body]}

(***************************************************************************)
(* State.                                                                  *)
(***************************************************************************)
VARIABLES
    probe,           \* one page put through processPage and the merge on its own
    web,             \* the link graph: the page behind every URL of the site
    options,         \* the parsed command line handed to run
    pc,              \* where the command is
    console,         \* the validation messages printed by run
    mainUrl,         \* runCrawler's parameters
    maxdist,
    dbName,
    currentLevel,    \* runCrawler's locals
    visitedUrls,
    urlsToVisit,
    stackedOutput,   \* a JavaScript object: a function from the ids to the records
    autoincrmentId,
    chunksOfUrls,
    chunkNumber,
    newUrlsToVisit,
    promises,        \* per URL of the current chunk: [settled, value]
    allPromises,     \* the array Promise.all resolved to
    prIndex,         \* position of the for-of loop over allPromises
    files,           \* what fs.writeFile was called with, and how it ended
    \* history variables (not program state)
    fetchLog,        \* the URLs handed to axios.get, in order
    settleLog,       \* per URL of the current chunk: how and when its request ended
    recLog,          \* one entry per record stored
    issueLog         \* one entry per call of axios.get: where it was issued, how far it got

progVars == <<probe, web, options, pc, console, mainUrl, maxdist, dbName, currentLevel, visitedUrls,
              urlsToVisit, stackedOutput, autoincrmentId, chunksOfUrls, chunkNumber,
              newUrlsToVisit, promises, allPromises, prIndex, files>>

histVars == <<fetchLog, settleLog, recLog, issueLog>>

vars == <<progVars, histVars>>

Pending == [settled |-> FALSE, value |-> Null]

NoProbe == [mainUrl |-> <<>>, anchors |-> <<>>, done |-> FALSE, normalized |-> <<>>,
            links |-> <<>>, frontier |-> <<>>]

\* the locals of runCrawler before it is called
Idle ==
    /\ console = <<>>
    /\ mainUrl = <<>>
    /\ maxdist = 0
    /\ dbName = ""
    /\ currentLevel = 0
    /\ visitedUrls = <<>>
    /\ urlsToVisit = <<>>
    /\ stackedOutput = <<>>
    /\ autoincrmentId = 0
    /\ chunksOfUrls = <<>>
    /\ chunkNumber = 0
    /\ newUrlsToVisit = <<>>
    /\ promises = <<>>
    /\ allPromises = <<>>
    /\ prIndex = 0
    /\ files = <<>>
    /\ fetchLog = <<>>
    /\ settleLog = <<>>
    /\ recLog = <<>>
    /\ issueLog = <<>>

Init ==
    /\ probe = NoProbe
    /\ web \in Webs
    /\ options \in Options
    /\ pc = "run"
    /\ Idle

crawlerVars == <<mainUrl, maxdist, dbName, currentLevel, visitedUrls, urlsToVisit,
                 stackedOutput, autoincrmentId, chunksOfUrls, chunkNumber,
                 newUrlsToVisit, promises, allPromises, prIndex, files>>

(***************************************************************************)
(* run (lines 310-333)                                                     *)
(***************************************************************************)
\* JavaScript truthiness of options.maxdist: undefined and 0 are falsy
maxdistTruthy(o) == o.hasMaxdist /\ o.maxdist # 0

\* the message of the validation that stops run, "" when none does
runRejection(o) ==
    IF o.url = <<>> THEN NO_URL_MSG
    ELSE IF ~validateUrl(o.url) THEN INVALID_URL_MSG
    ELSE IF maxdistTruthy(o) /\ o.maxdist < 1 THEN INVALID_MAXDIST_MSG
    ELSE ""

RunReject ==
    /\ pc = "run"
    /\ runRejection(options) # ""
    /\ console' = Append(console, runRejection(options))
    /\ pc' = "returned"
    /\ UNCHANGED <<probe, web, options, crawlerVars, histVars>>

\* run calls runCrawler, which initialises its locals (lines 368-373)
RunCrawl ==
    /\ pc = "run"
    /\ runRejection(options) = ""
    /\ mainUrl' = options.url
    /\ maxdist' = IF maxdistTruthy(options) THEN options.maxdist ELSE DEFAULT_MAXDIST
    /\ dbName' = DEFAULT_DB_NAME
    /\ currentLevel' = 1
    /\ visitedUrls' = <<>>
    /\ urlsToVisit' = <<options.url>>
    /\ stackedOutput' = <<>>
    /\ autoincrmentId' = 1
    /\ pc' = "while"
    /\ UNCHANGED <<probe, web, options, console, chunksOfUrls, chunkNumber, newUrlsToVisit, promises,
                   allPromises, prIndex, files, histVars>>

(***************************************************************************)
(* runCrawler (lines 363-424)                                              *)
(***************************************************************************)
\* mutant: one level too many
whileTestOffByOne(level, max) == level <= max + 1

whileTest(level, max) == level <= max

\* line 375 true, lines 381-388
LevelStart ==
    /\ pc = "while"
    /\ whileTest(currentLevel, maxdist)
    /\ chunksOfUrls' = chunkArray(urlsToVisit, SIMULTANEOUS_REQUESTS)
    /\ chunkNumber' = 1
    /\ newUrlsToVisit' = <<>>
    /\ pc' = "for"
    /\ UNCHANGED <<probe, web, options, console, mainUrl, maxdist, dbName, currentLevel, visitedUrls,
                   urlsToVisit, stackedOutput, autoincrmentId, promises, allPromises,
                   prIndex, files, histVars>>

\* line 394: every processPage of the chunk runs up to its axios.get
IssueChunk ==
    /\ pc = "for"
    /\ chunkNumber <= Len(chunksOfUrls)
    /\ LET chunk == chunksOfUrls[chunkNumber]
       IN  /\ promises' = [i \in 1..Len(chunk) |-> Pending]
           /\ settleLog' = [i \in 1..Len(chunk) |-> [rank |-> 0, threw |-> FALSE,
                                                      status |-> 0, hasData |-> FALSE]]
           /\ fetchLog' = fetchLog \o chunk
           /\ issueLog' = issueLog \o
                  [i \in 1..Len(chunk) |->
                      [url |-> chunk[i], level |-> currentLevel, chunk |-> chunkNumber,
                       pos |-> i, frontier |-> Len(urlsToVisit),
                       state |-> "pending", merged |-> FALSE]]
    /\ pc' = "await"
    /\ UNCHANGED <<probe, web, options, console, mainUrl, maxdist, dbName, currentLevel, visitedUrls,
                   urlsToVisit, stackedOutput, autoincrmentId, chunksOfUrls, chunkNumber,
                   newUrlsToVisit, allPromises, prIndex, files, recLog>>

\* history: the entries of issueLog before those of the chunk being processed
inFlightBase == Len(issueLog) - Len(promises)

\* mutant: a page that was fetched marks its URL as visited itself
SettleMarksVisited(i) ==
    /\ pc = "await"
    /\ i \in 1..Len(promises)
    /\ ~promises[i].settled
    /\ \E resp \in Responses(web, chunksOfUrls[chunkNumber][i]) :
        LET pr == processPage(mainUrl, chunksOfUrls[chunkNumber][i], resp)
        IN  /\ promises' = [promises EXCEPT ![i] = [settled |-> TRUE, value |-> pr]]
            /\ settleLog' = [settleLog EXCEPT ![i] =
                   [rank |-> 1 + Cardinality({j \in 1..Len(promises) : promises[j].settled}),
                    threw |-> resp.threw, status |-> resp.status,
                    hasData |-> resp.data # <<>>]]
            /\ issueLog' = [issueLog EXCEPT ![inFlightBase + i].state =
                   IF pr = Null THEN "failed" ELSE "ok"]
            /\ visitedUrls' = IF pr = Null THEN visitedUrls
                              ELSE Append(visitedUrls, pr[1].url)
    /\ UNCHANGED <<probe, web, options, pc, console, mainUrl, maxdist, dbName, currentLevel,
                   urlsToVisit, stackedOutput, autoincrmentId, chunksOfUrls,
                   chunkNumber, newUrlsToVisit, allPromises, prIndex, files, fetchLog,
                   recLog>>

\* the request of the i-th URL of the chunk ends and its processPage finishes
Settle(i) ==
    /\ pc = "await"
    /\ i \in 1..Len(promises)
    /\ ~promises[i].settled
    /\ \E resp \in Responses(web, chunksOfUrls[chunkNumber][i]) :
        /\ promises' = [promises EXCEPT ![i] =
               [settled |-> TRUE,
                value |-> processPage(mainUrl, chunksOfUrls[chunkNumber][i], resp)]]
        /\ settleLog' = [settleLog EXCEPT ![i] =
               [rank |-> 1 + Cardinality({j \in 1..Len(promises) : promises[j].settled}),
                threw |-> resp.threw, status |-> resp.status,
                hasData |-> resp.data # <<>>]]
        /\ issueLog' = [issueLog EXCEPT ![inFlightBase + i].state =
               IF processPage(mainUrl, chunksOfUrls[chunkNumber][i], resp) = Null
               THEN "failed" ELSE "ok"]
    /\ UNCHANGED <<probe, web, options, pc, console, mainUrl, maxdist, dbName, currentLevel,
                   visitedUrls, urlsToVisit, stackedOutput, autoincrmentId, chunksOfUrls,
                   chunkNumber, newUrlsToVisit, allPromises, prIndex, files, fetchLog,
                   recLog>>

\* mutant: the values in the order in which the promises settled
promiseAllByCompletion(ps, log) ==
    [r \in 1..Len(ps) |-> ps[CHOOSE i \in 1..Len(ps) : log[i].rank = r].value]

\* mutant: the values in the reverse of the order in which the promises settled
promiseAllLastSettledFirst(ps, log) ==
    [r \in 1..Len(ps) |->
        ps[CHOOSE i \in 1..Len(ps) : log[i].rank = Len(ps) + 1 - r].value]

\* the array Promise.all resolves to: the values in the order of the promises
promiseAll(ps, log) == [i \in 1..Len(ps) |-> ps[i].value]

\* mutant: the barrier gives way as soon as one promise has settled
anySettled(ps) == \E i \in 1..Len(ps) : ps[i].settled

\* when Promise.all settles (no promise rejects: processPage catches)
allSettled(ps) == \A i \in 1..Len(ps) : ps[i].settled

\* line 395: Promise.all resolves once every promise of the chunk has
AwaitAll ==
    /\ pc = "await"
    /\ allSettled(promises)
    /\ allPromises' = promiseAll(promises, settleLog)
    /\ prIndex' = 1
    /\ pc' = "merge"
    /\ UNCHANGED <<probe, web, options, console, mainUrl, maxdist, dbName, currentLevel, visitedUrls,
                   urlsToVisit, stackedOutput, autoincrmentId, chunksOfUrls, chunkNumber,
                   newUrlsToVisit, promises, files, histVars>>

\* mutant: a link is also refused when its URL was handed to axios.get before
RECURSIVE admitLinksSkipsFetched(_, _, _)
admitLinksSkipsFetched(visited, newUrls, links) ==
    IF links = <<>> THEN newUrls
    ELSE LET link == Head(links)
         IN  admitLinksSkipsFetched(visited,
                        IF ~arrIncludes(visited, link) /\ ~arrIncludes(newUrls, link)
                           /\ ~arrIncludes(fetchLog, link)
                        THEN Append(newUrls, link) ELSE newUrls,
                        Tail(links))

\* lines 409-415
RECURSIVE admitLinks(_, _, _)
admitLinks(visited, newUrls, links) ==
    IF links = <<>> THEN newUrls
    ELSE LET link == Head(links)
         IN  admitLinks(visited,
                        IF ~arrIncludes(visited, link) /\ ~arrIncludes(newUrls, link)
                        THEN Append(newUrls, link) ELSE newUrls,
                        Tail(links))

\* mutant: the store is replaced by one holding the new record only
storeRecordReplaces(out, id, pr) ==
    [k \in {id} |-> [url |-> pr.url, title |-> pr.title, texts |-> pr.texts]]

\* stackedOutput[id] = {url, title, texts} (lines 401-406)
storeRecord(out, id, pr) ==
    [k \in (DOMAIN out) \cup {id} |->
        IF k = id THEN [url |-> pr.url, title |-> pr.title, texts |-> pr.texts]
        ELSE out[k]]

\* mutant: the counter is not incremented
nextIdStuck(id) == id

\* mutant: the counter is incremented twice
nextIdSkips(id) == id + 2

nextId(id) == id + 1

\* lines 398-400: is the result skipped
skipResult(pr) == pr = Null

\* history: the position at which url was issued in its chunk
issuePos(chunk, url) == CHOOSE i \in 1..Len(chunk) : chunk[i] = url

\* one iteration of the loop of lines 396-416
MergeResult ==
    /\ pc = "merge"
    /\ prIndex <= Len(allPromises)
    /\ LET pr == allPromises[prIndex]
       IN  IF skipResult(pr)
           THEN UNCHANGED <<stackedOutput, autoincrmentId, visitedUrls, newUrlsToVisit,
                            recLog>>
           ELSE /\ stackedOutput' = storeRecord(stackedOutput, autoincrmentId, pr[1])
                /\ autoincrmentId' = nextId(autoincrmentId)
                /\ visitedUrls' = Append(visitedUrls, pr[1].url)
                /\ newUrlsToVisit' = admitLinks(visitedUrls', newUrlsToVisit, pr[1].links)
                /\ recLog' = Append(recLog,
                       [id |-> autoincrmentId, url |-> pr[1].url, links |-> pr[1].links,
                        level |-> currentLevel, chunk |-> chunkNumber,
                        pos |-> issuePos(chunksOfUrls[chunkNumber], pr[1].url),
                        fetch |-> settleLog[issuePos(chunksOfUrls[chunkNumber],
                                                     pr[1].url)]])
    /\ prIndex' = prIndex + 1
    /\ issueLog' = [issueLog EXCEPT ![inFlightBase + prIndex].merged = TRUE]
    /\ UNCHANGED <<probe, web, options, pc, console, mainUrl, maxdist, dbName, currentLevel,
                   urlsToVisit, chunksOfUrls, chunkNumber, promises, allPromises, files,
                   fetchLog, settleLog>>

\* line 417, end of one iteration of the loop over the chunks: the constants
\* promises and allPromises of the loop body go out of scope
ChunkEnd ==
    /\ pc = "merge"
    /\ prIndex > Len(allPromises)
    /\ chunkNumber' = chunkNumber + 1
    /\ promises' = <<>>
    /\ allPromises' = <<>>
    /\ prIndex' = 0
    /\ settleLog' = <<>>
    /\ pc' = "for"
    /\ UNCHANGED <<probe, web, options, console, mainUrl, maxdist, dbName, currentLevel,
                   visitedUrls, urlsToVisit, stackedOutput, autoincrmentId, chunksOfUrls,
                   newUrlsToVisit, files, fetchLog, recLog, issueLog>>

\* mutant: the level counter is not incremented
nextLevelStuck(level) == level

\* line 421
nextLevel(level) == level + 1

\* lines 420-421, after the last chunk; the locals of the while body go out of
\* scope
LevelEnd ==
    /\ pc = "for"
    /\ chunkNumber > Len(chunksOfUrls)
    /\ urlsToVisit' = newUrlsToVisit
    /\ currentLevel' = nextLevel(currentLevel)
    /\ chunksOfUrls' = <<>>
    /\ chunkNumber' = 0
    /\ newUrlsToVisit' = <<>>
    /\ pc' = "while"
    /\ UNCHANGED <<probe, web, options, console, mainUrl, maxdist, dbName, visitedUrls,
                   stackedOutput, autoincrmentId, promises, allPromises, prIndex, files,
                   histVars>>

\* mutant: the entries in descending key order
RECURSIVE jsonStringifyDescending(_)
jsonStringifyDescending(obj) ==
    IF DOMAIN obj = {} THEN <<>>
    ELSE LET k == CHOOSE x \in DOMAIN obj : \A y \in DOMAIN obj : y <= x
         IN  <<[key |-> k, value |-> obj[k]]>>
             \o jsonStringifyDescending([j \in (DOMAIN obj) \ {k} |-> obj[j]])

\* JSON.stringify of an object with integer keys: the entries in ascending key order
RECURSIVE jsonStringify(_)
jsonStringify(obj) ==
    IF DOMAIN obj = {} THEN <<>>
    ELSE LET k == CHOOSE x \in DOMAIN obj : \A y \in DOMAIN obj : y <= x
         IN  Append(jsonStringify([j \in (DOMAIN obj) \ {k} |-> obj[j]]),
                    [key |-> k, value |-> obj[k]])

\* line 375 false, line 423 and writeFile (lines 579-588); fs.writeFile may throw
WriteFile ==
    /\ pc = "while"
    /\ ~whileTest(currentLevel, maxdist)
    /\ \E saved \in BOOLEAN :
        files' = Append(files, [filePath |-> dbName,
                                jsonString |-> jsonStringify(stackedOutput),
                                saved |-> saved])
    /\ pc' = "returned"
    /\ UNCHANGED <<probe, web, options, console, mainUrl, maxdist, dbName, currentLevel, visitedUrls,
                   urlsToVisit, stackedOutput, autoincrmentId, chunksOfUrls, chunkNumber,
                   newUrlsToVisit, promises, allPromises, prIndex, histVars>>

Next ==
    \/ RunReject
    \/ RunCrawl
    \/ LevelStart
    \/ IssueChunk
    \/ \E i \in 1..SIMULTANEOUS_REQUESTS : Settle(i)
    \/ AwaitAll
    \/ MergeResult
    \/ ChunkEnd
    \/ LevelEnd
    \/ WriteFile

Spec == Init /\ [][Next]_vars

\* the steps runCrawler takes by itself, and the steps of the fetches
ProgramStep ==
    \/ RunReject
    \/ RunCrawl
    \/ LevelStart
    \/ IssueChunk
    \/ AwaitAll
    \/ MergeResult
    \/ ChunkEnd
    \/ LevelEnd
    \/ WriteFile

\* The command runs on, on the link graphs of UniformWebs with the command
\* lines of FairOptions: a step of the program that can be taken is taken (the
\* event loop resumes the async function), and while a fetch is pending some
\* pending fetch settles (which is so when every fetch that was issued settles).
\* the link graphs in which the three pages under the seed are alike
UniformWebs == {w \in Webs : w[uA] = w[uB] /\ w[uB] = w[uC]}

\* the command lines with no --url, a malformed one, and the seed with and
\* without www.
FairOptions == {o \in Options : o.url \in {<<>>, uNoHost, uSeed, uBare}}

FairInit ==
    /\ probe = NoProbe
    /\ web \in UniformWebs
    /\ options \in FairOptions
    /\ pc = "run"
    /\ Idle

FairSpec ==
    /\ FairInit /\ [][Next]_vars
    /\ WF_vars(ProgramStep)
    /\ WF_vars(\E i \in 1..SIMULTANEOUS_REQUESTS : Settle(i))

(***************************************************************************)
(* One page on its own: processPage on a page served with status 200,     *)
(* then the merge of its result into the state of a crawl that has         *)
(* fetched nothing else (lines 396-416 with the page's URL just visited).  *)
(* probe.normalized keeps what processHrefValue returned for each anchor.  *)
(***************************************************************************)
PageInit ==
    /\ probe \in [mainUrl : ProbeSeeds, anchors : SeqsUpTo(Hrefs, MaxAnchors),
                  done : {FALSE}, normalized : {<<>>}, links : {<<>>}, frontier : {<<>>}]
    /\ web = <<>>
    /\ options = [url |-> <<>>, hasMaxdist |-> FALSE, maxdist |-> 0]
    /\ pc = "page"
    /\ Idle

ProbePage ==
    /\ pc = "page"
    /\ ~probe.done
    /\ LET resp == [threw |-> FALSE, status |-> 200,
                    data |-> <<[title |-> "Home", texts |-> "Welcome",
                                anchors |-> probe.anchors]>>]
           pr == processPage(probe.mainUrl, probe.mainUrl, resp)
       IN  probe' = [probe EXCEPT
                        !.done = TRUE,
                        !.normalized = [i \in 1..Len(probe.anchors) |->
                                           normalizedUrlOf(probe.mainUrl, probe.anchors[i])],
                        !.links = IF skipResult(pr) THEN <<>> ELSE pr[1].links,
                        !.frontier = IF skipResult(pr) THEN <<>>
                                     ELSE admitLinks(<<pr[1].url>>, <<>>, pr[1].links)]
    /\ UNCHANGED <<web, options, pc, console, crawlerVars, histVars>>

PageNext == ProbePage

PageSpec == PageInit /\ [][PageNext]_vars

(***************************************************************************)
(* The claims.                                                             *)
(***************************************************************************)
\* runCrawler has been called
crawling == mainUrl # <<>>

noDuplicates(arr) == \A i, j \in 1..Len(arr) : i # j => arr[i] # arr[j]

\* C1: no two records of the Output Store have the same url.
C1_RecordUrlsUnique ==
    \A i, j \in DOMAIN stackedOutput :
        i # j => stackedOutput[i].url # stackedOutput[j].url

\* C2: during one run every URL is handed to the fetch adapter at most once.
C2_FetchedAtMostOnce == noDuplicates(fetchLog)

\* C3: when a level starts, its Frontier has no duplicate URL and no URL that
\* is already in Visited.
C3_FrontierFresh ==
    (pc = "while" /\ whileTest(currentLevel, maxdist)) =>
        /\ noDuplicates(urlsToVisit)
        /\ \A i \in 1..Len(urlsToVisit) : ~arrIncludes(visitedUrls, urlsToVisit[i])

\* C4: the ids of the Output Store are exactly 1..count, count being the number
\* of records stored so far: the k-th record stored has id k and is still
\* there, and the id counter is count + 1.
C4_IdsDense ==
    crawling =>
        /\ DOMAIN stackedOutput = 1..Len(recLog)
        /\ autoincrmentId = Len(recLog) + 1
        /\ \A k \in 1..Len(recLog) :
               recLog[k].id = k /\ stackedOutput[k].url = recLog[k].url

\* a record was stored right after a failed fetch of the same batch was skipped
C4_Witness ==
    \E k \in 2..Len(recLog) :
        /\ recLog[k].pos = 2
        /\ recLog[k].id = recLog[k - 1].id + 1
        /\ recLog[k - 1].level < recLog[k].level

\* for every seed, the links processPage finds on a page with each of the
\* anchor lists of the site
linkTable ==
    [m \in SeedUrls |-> [a \in AnchorChoices |-> walkAnchors(m, a, <<>>)]]

\* the links processPage finds on the page behind url (none when it has no page)
linksOf(url) ==
    IF url \in DOMAIN web THEN linkTable[mainUrl][web[url].anchors] ELSE <<>>

\* the URLs reachable from the seed by a chain of at most n admitted links
RECURSIVE reachWithin(_)
reachWithin(n) ==
    IF n = 0 THEN {mainUrl}
    ELSE LET near == reachWithin(n - 1)
         IN  near \cup UNION {LET links == linksOf(u)
                               IN  {links[i] : i \in 1..Len(links)} : u \in near}

\* C5: with maxDepth = D exactly D levels are processed, every record is the
\* seed (level 1) or was linked from a page recorded at the previous level, so
\* every recorded URL is within D-1 admitted links of the seed; with D = 1 only
\* the seed is fetched.
C5_DepthBound ==
    crawling =>
        LET near == reachWithin(maxdist - 1)
        IN  /\ \A k \in 1..Len(recLog) :
                   /\ recLog[k].level \in 1..maxdist
                   /\ recLog[k].level = 1 => recLog[k].url = mainUrl
                   /\ recLog[k].level > 1 =>
                          \E j \in 1..(k - 1) :
                              /\ recLog[j].level = recLog[k].level - 1
                              /\ arrIncludes(recLog[j].links, recLog[k].url)
                   /\ recLog[k].url \in near
            /\ currentLevel \in 1..(maxdist + 1)
            /\ files # <<>> => currentLevel = maxdist + 1
            /\ maxdist = 1 => \A i \in 1..Len(fetchLog) : i = 1 /\ fetchLog[i] = mainUrl

\* a crawl of depth 2 has ended with two levels recorded while the site has a
\* page three levels deep
C5_Witness ==
    /\ files # <<>>
    /\ maxdist = 2
    /\ \E k \in 1..Len(recLog) : recLog[k].level = 2
    /\ Len(recLog) = Len(fetchLog)
    /\ \E u \in reachWithin(2) \ reachWithin(1) :
           \A k \in 1..Len(recLog) : recLog[k].url # u

\* the hrefs of the anchors of the site's pages
siteHrefs == UNION {{a[i] : i \in 1..Len(a)} : a \in AnchorChoices}

\* for every seed, what the normalizer makes of the hrefs of the site, as far
\* as it lies under the seed
normalizedSameSite ==
    [m \in SeedUrls |->
        {u \in {processHrefValue(m, h) : h \in siteHrefs} : startsWith(u, m)}]

\* C6: every URL placed in a next-level Frontier, and the url of every record
\* but the seed's, is an output of the URL normalizer that has the seed URL as
\* a prefix.
C6_FrontierSameSite ==
    crawling =>
        LET allowed == normalizedSameSite[mainUrl]
        IN  /\ \A i \in 1..Len(newUrlsToVisit) : newUrlsToVisit[i] \in allowed
            /\ currentLevel > 1 =>
                   \A i \in 1..Len(urlsToVisit) : urlsToVisit[i] \in allowed
            /\ \A k \in DOMAIN stackedOutput :
                   stackedOutput[k].url = mainUrl \/ stackedOutput[k].url \in allowed

\* a page with a link to another site and a link with a query string was
\* merged: the first is not in the next Frontier, the second is, normalized
C6_Witness ==
    /\ pc = "merge"
    /\ \E k \in 1..Len(recLog) :
           /\ recLog[k].level = currentLevel
           /\ recLog[k].url \in DOMAIN web
           /\ web[recLog[k].url].anchors = <<hB, hAq, hOther>>
    /\ arrIncludes(newUrlsToVisit, uA)
    /\ ~arrIncludes(newUrlsToVisit, hOther)

failedFetch(f) == f.threw \/ f.status # 200 \/ ~f.hasData

C7_FailureYieldsNull ==
    /\ \A i \in 1..Len(promises) :
           (promises[i].settled /\ failedFetch(settleLog[i])) => promises[i].value = Null
    /\ \A k \in 1..Len(recLog) : ~failedFetch(recLog[k].fetch)

C7_NullMergeIsNoop ==
    (pc = "merge" /\ prIndex <= Len(allPromises) /\ allPromises[prIndex] = Null
        /\ prIndex' = prIndex + 1)
    => UNCHANGED <<stackedOutput, autoincrmentId, visitedUrls, newUrlsToVisit>>

\* C7: a fetch that fails (network error, non-200 status, empty body) makes
\* processPage return absent; merging an absent result leaves the Output
\* Store, the id counter, Visited and the next Frontier unchanged; every record
\* comes from a fetch that succeeded.
C7_FailedFetchLeavesNoTrace == [](C7_FailureYieldsNull) /\ [][C7_NullMergeIsNoop]_vars

\* a 404 answer that carried a body has been skipped by the merge, and a
\* record of the same batch was stored after it
C7_Witness ==
    /\ pc = "merge"
    /\ prIndex = 3
    /\ allPromises[1] = Null
    /\ settleLog[1].status = 404
    /\ settleLog[1].hasData
    /\ allPromises[2] # Null

\* run must refuse these command lines
invalidInput(o) ==
    \/ o.url = <<>>
    \/ ~validateUrl(o.url)
    \/ (o.hasMaxdist /\ o.maxdist < 1)

\* C8: with a missing or malformed seed URL, or a maximum depth that is zero or
\* negative, run reports it and traversal never begins: no fetch is issued and
\* no snapshot is written.
C8_InvalidInputNeverCrawls ==
    invalidInput(options) =>
        /\ fetchLog = <<>>
        /\ files = <<>>
        /\ pc = "returned" => console # <<>>

sameBatch(a, b) == a.level = b.level /\ a.chunk = b.chunk

\* C9 as stated: within a batch ids follow the order in which the fetches
\* completed.
C9_IdsInCompletionOrder ==
    \A j, k \in 1..Len(recLog) :
        sameBatch(recLog[j], recLog[k]) =>
            (recLog[j].id < recLog[k].id <=> recLog[j].fetch.rank < recLog[k].fetch.rank)

\* C9 amended: within a batch ids follow the order in which the fetches were
\* issued (the order of the URLs in the Frontier), whatever the order in which
\* they completed.
C9_IdsInIssueOrder ==
    \A j, k \in 1..Len(recLog) :
        sameBatch(recLog[j], recLog[k]) =>
            (recLog[j].id < recLog[k].id <=> recLog[j].pos < recLog[k].pos)

\* two pages of one batch were recorded, the one issued first completing last
C9_Witness ==
    \E j, k \in 1..Len(recLog) :
        /\ sameBatch(recLog[j], recLog[k])
        /\ recLog[j].pos < recLog[k].pos
        /\ recLog[j].fetch.rank > recLog[k].fetch.rank

\* the hrefs C10 names: absent, exactly "#", exactly "/", beginning with mailto
excludedHref(h) == h = <<>> \/ h = sHash \/ h = sSlash \/ startsWith(h, sMailto)

keptHref(h) == ~excludedHref(h)

\* C10: for any seed, an anchor whose href is "#", "/", begins with mailto or is
\* absent contributes nothing to the page's link list nor to the Frontier: the
\* page yields the links and the Frontier of the page without those anchors,
\* and none at all when it has no other anchor.
C10_ExcludedAnchors ==
    probe.done =>
        LET kept == walkAnchors(probe.mainUrl, SelectSeq(probe.anchors, keptHref), <<>>)
        IN  /\ probe.links = kept
            /\ probe.frontier = admitLinks(<<probe.mainUrl>>, <<>>, kept)
            /\ (\A i \in 1..Len(probe.anchors) : excludedHref(probe.anchors[i]))
                   => probe.links = <<>> /\ probe.frontier = <<>>
            /\ \A i \in 1..Len(probe.anchors) :
                   excludedHref(probe.anchors[i]) =>
                       /\ Len(probe.links) < Len(probe.anchors)
                       /\ Len(probe.frontier) < Len(probe.anchors)

\* a page with a mailto anchor and a relative link has been processed: one link
C10_Witness ==
    /\ probe.done
    /\ probe.mainUrl = uSeed
    /\ probe.anchors = <<hMail, hA>>
    /\ probe.links = <<uA>>
    /\ probe.frontier = <<uA>>

\* every fetch issued so far has settled and its result has gone through the merge
allMerged == \A k \in 1..Len(issueLog) : issueLog[k].state # "pending" /\ issueLog[k].merged

\* C11: the snapshot writer is called exactly once per crawl, only after the
\* last level has completed, with the serialization of the whole Output Store,
\* and the keys of the serialized store are in the order in which the ids were
\* assigned (ascending).
C11_SnapshotOnceInIdOrder ==
    /\ Len(files) <= 1
    /\ (crawling /\ pc = "returned") => Len(files) = 1
    /\ files # <<>> =>
           /\ pc = "returned"
           /\ currentLevel = maxdist + 1
           /\ allMerged
           /\ files[1].filePath = dbName
           /\ LET json == files[1].jsonString
              IN  /\ Len(json) = Len(recLog)
                  /\ Len(json) = Cardinality(DOMAIN stackedOutput)
                  /\ \A k \in 1..Len(json) :
                         /\ json[k].key = recLog[k].id
                         /\ json[k].value = stackedOutput[json[k].key]
                         /\ json[k].value.url = recLog[k].url
                  /\ \A k \in 1..(Len(json) - 1) : json[k].key < json[k + 1].key

\* a crawl of several levels in which a fetch failed has written its snapshot
\* of three records or more
C11_Witness ==
    /\ files # <<>>
    /\ Len(files[1].jsonString) >= 3
    /\ currentLevel > 2
    /\ \E k \in 1..Len(issueLog) : issueLog[k].state = "failed"

\* fetch a was issued in a batch that comes before the batch of fetch b
batchBefore(a, b) == a.level < b.level \/ (a.level = b.level /\ a.chunk < b.chunk)

\* C12: when a fetch of a batch has been issued, every fetch of every earlier
\* batch (of the same level or of an earlier level) has settled and has been
\* merged, and every URL of the Frontier of every earlier level has been issued;
\* as long as a fetch has not settled, the crawler waits at the barrier of that
\* fetch's batch: no later batch or level has been started and no snapshot has
\* been written.
C12_BatchBarrier ==
    LET n == Len(issueLog)
    IN  \* the fetches were issued batch after batch, level after level
        /\ \A k \in 2..n : ~batchBefore(issueLog[k], issueLog[k - 1])
        \* every fetch of a batch before the batch issued last has settled and
        \* has been merged
        /\ \A j \in 1..n :
               batchBefore(issueLog[j], issueLog[n]) =>
                   issueLog[j].state # "pending" /\ issueLog[j].merged
        \* of every level before the level issued last, as many fetches were
        \* issued as its Frontier had URLs
        /\ \A j \in 1..n :
               (issueLog[j].level < issueLog[n].level
                   /\ issueLog[j].chunk = 1 /\ issueLog[j].pos = 1) =>
                   Cardinality({i \in 1..n : issueLog[i].level = issueLog[j].level})
                       = issueLog[j].frontier
        \* a pending fetch: the crawler is at the barrier of its batch
        /\ \A k \in 1..n :
               issueLog[k].state = "pending" =>
                   /\ pc = "await"
                   /\ currentLevel = issueLog[k].level
                   /\ chunkNumber = issueLog[k].chunk
                   /\ ~batchBefore(issueLog[k], issueLog[n])
                   /\ \A j \in k..n : ~issueLog[j].merged
                   /\ files = <<>>

\* the second batch of a level is in flight, one of its fetches still pending,
\* after a first batch in which one fetch failed and one succeeded
C12_Witness ==
    /\ pc = "await"
    /\ chunkNumber = 2
    /\ \E i \in 1..Len(promises) : ~promises[i].settled
    /\ \E j, k \in 1..Len(issueLog) :
           /\ issueLog[j].level = currentLevel /\ issueLog[j].chunk = 1
           /\ issueLog[k].level = currentLevel /\ issueLog[k].chunk = 1
           /\ issueLog[j].state = "failed"
           /\ issueLog[k].state = "ok"

RECURSIVE flatten(_)
flatten(chunks) == IF chunks = <<>> THEN <<>> ELSE Head(chunks) \o flatten(Tail(chunks))

\* the fetches that have been issued and have not settled
inFlightFetches == {k \in 1..Len(issueLog) : issueLog[k].state = "pending"}

\* C13: chunkArray splits the Frontier into consecutive non-empty batches of at
\* most SIMULTANEOUS_REQUESTS URLs whose concatenation is the Frontier in order
\* (every batch but the last is full); at any moment at most
\* SIMULTANEOUS_REQUESTS fetches are in flight, all of one batch.
C13_ChunksPartitionFrontier ==
    /\ pc \in {"for", "await", "merge"} =>
           /\ flatten(chunksOfUrls) = urlsToVisit
           /\ \A k \in 1..Len(chunksOfUrls) :
                  /\ Len(chunksOfUrls[k]) \in 1..SIMULTANEOUS_REQUESTS
                  /\ k < Len(chunksOfUrls) => Len(chunksOfUrls[k]) = SIMULTANEOUS_REQUESTS
    /\ pc \in {"await", "merge"} =>
           /\ Len(promises) = Len(chunksOfUrls[chunkNumber])
           /\ \A i \in 1..Len(promises) :
                  issueLog[inFlightBase + i].url = chunksOfUrls[chunkNumber][i]
    /\ Cardinality(inFlightFetches) <= SIMULTANEOUS_REQUESTS
    /\ Cardinality({i \in 1..Len(promises) : ~promises[i].settled}) = Cardinality(inFlightFetches)
    /\ \A j, k \in inFlightFetches :
           issueLog[j].level = issueLog[k].level /\ issueLog[j].chunk = issueLog[k].chunk

\* a Frontier longer than a batch has been split in two, and every fetch of its
\* first, full batch is in flight
C13_Witness ==
    /\ pc = "await"
    /\ Len(chunksOfUrls) = 2
    /\ chunkNumber = 1
    /\ Len(urlsToVisit) > SIMULTANEOUS_REQUESTS
    /\ Cardinality(inFlightFetches) = SIMULTANEOUS_REQUESTS

\* a fetch+extract operation of the current batch has not settled
fetchInFlight == \E i \in 1..Len(promises) : ~promises[i].settled

\* Visited, the next-level Frontier, the Output Store and the id counter
sharedState == <<visitedUrls, newUrlsToVisit, stackedOutput, autoincrmentId>>

C14_Step ==
    /\ (fetchInFlight \/ fetchInFlight') => sharedState' = sharedState
    /\ (crawling /\ sharedState' # sharedState) =>
           \/ /\ pc = "merge"
              /\ pc' = "merge"
              /\ prIndex' = prIndex + 1
              /\ \A i \in 1..Len(promises) : promises[i].settled
              /\ promises' = promises
           \/ /\ pc = "for"
              /\ pc' = "while"
              /\ urlsToVisit' = newUrlsToVisit
              /\ newUrlsToVisit' = <<>>
              /\ <<visitedUrls, stackedOutput, autoincrmentId>>'
                     = <<visitedUrls, stackedOutput, autoincrmentId>>

\* C14: a step that starts a fetch, a step that completes one, and any step
\* taken while a fetch of the batch is in flight leave Visited, the next-level
\* Frontier, the Output Store and the id counter unchanged; during a level they
\* change only in a step of the merge loop, taken when every operation of the
\* batch has settled (at the end of the level the next-level Frontier becomes
\* the Frontier).
C14_SharedStateOnlyInMerge == [][C14_Step]_vars

\* the merge has stored a record of a batch in which two fetches had been in
\* flight together
C14_Witness ==
    /\ pc = "merge"
    /\ prIndex > 1
    /\ Len(promises) = 2
    /\ settleLog[1].rank = 2
    /\ \E k \in 1..Len(recLog) :
           recLog[k].level = currentLevel /\ recLog[k].chunk = chunkNumber
    /\ newUrlsToVisit # <<>>

C15_LevelStep ==
    /\ (pc = "run" /\ crawling') => currentLevel' = 1
    /\ (pc = "for" /\ pc' = "while") => currentLevel' = currentLevel + 1
    /\ currentLevel' # currentLevel => (pc = "run" \/ (pc = "for" /\ pc' = "while"))
    /\ (pc = "while" /\ pc' = "returned") => currentLevel = maxdist + 1
    /\ (crawling /\ urlsToVisit = <<>>) =>
           /\ urlsToVisit' = <<>>
           /\ newUrlsToVisit' = <<>>
           /\ fetchLog' = fetchLog
           /\ stackedOutput' = stackedOutput

\* the command has returned; if it crawled, the level counter has passed
\* maxdist and the snapshot has been written
crawlEnded ==
    /\ pc = "returned"
    /\ crawling => (currentLevel = maxdist + 1 /\ Len(files) = 1)

\* C15: when every issued fetch settles, runCrawler terminates, whatever fetches
\* fail: the level counter starts at 1, goes up by exactly 1 at the end of each
\* level, the loop is left when it is maxdist + 1 and the snapshot is then
\* written; from a level whose Frontier is empty on, no step issues a fetch,
\* adds a record or puts a URL in the next Frontier.
C15_Terminates == <>crawlEnded /\ [][C15_LevelStep]_vars

\* a crawl of four levels has ended although every fetch after the first level
\* failed, so that its last two levels had an empty Frontier
C15_Witness ==
    /\ crawlEnded
    /\ crawling
    /\ maxdist = 4
    /\ Len(recLog) = 1
    /\ Len(fetchLog) > 1
    /\ urlsToVisit = <<>>

\* a fetch of url failed at a level before level
failedBefore(url, level) ==
    \E f \in 1..Len(issueLog) :
        /\ issueLog[f].url = url
        /\ issueLog[f].state = "failed"
        /\ issueLog[f].level < level

\* url was fetched at level
fetchedAt(url, level) ==
    \E g \in 1..Len(issueLog) : issueLog[g].url = url /\ issueLog[g].level = level

\* url had been stored (and so was in Visited) when the k-th record had been
recordedBy(url, k) == \E j \in 1..k : recLog[j].url = url

\* C16 as stated: when a page stored at a level below maxdist links to a URL
\* (not its own) of which a fetch failed at an earlier level, the URL is in the
\* next Frontier and is fetched at the next level.
C16_FailedUrlRetried ==
    \A k \in 1..Len(recLog) :
        \A n \in 1..Len(recLog[k].links) :
            LET u == recLog[k].links[n]
                L == recLog[k].level
            IN  (L < maxdist /\ u # recLog[k].url /\ failedBefore(u, L)) =>
                    /\ currentLevel = L => arrIncludes(newUrlsToVisit, u)
                    /\ currentLevel > L + 1 => fetchedAt(u, L + 1)

\* C16 amended: a failed fetch leaves its URL out of Visited; when a page stored
\* at a level below maxdist links to a URL of which a fetch failed at an
\* earlier level and of which no fetch has succeeded by then, the URL is in the
\* next Frontier and is fetched at the next level.
C16_UnvisitedFailedUrlRetried ==
    /\ \A f \in 1..Len(issueLog) :
           (issueLog[f].state = "failed" /\ issueLog[f].merged) =>
               \/ ~arrIncludes(visitedUrls, issueLog[f].url)
               \/ \E g \in 1..Len(issueLog) :
                      g # f /\ issueLog[g].url = issueLog[f].url /\ issueLog[g].state = "ok"
    /\ \A k \in 1..Len(recLog) :
           \A n \in 1..Len(recLog[k].links) :
               LET u == recLog[k].links[n]
                   L == recLog[k].level
               IN  (L < maxdist /\ ~recordedBy(u, k) /\ failedBefore(u, L)) =>
                       /\ currentLevel = L => arrIncludes(newUrlsToVisit, u)
                       /\ currentLevel > L + 1 => fetchedAt(u, L + 1)

\* a URL whose fetch failed at level 2 was linked from a page stored at level 3
\* and has been fetched again at level 4
C16_Witness ==
    \E k \in 1..Len(recLog) :
        \E n \in 1..Len(recLog[k].links) :
            LET u == recLog[k].links[n]
            IN  /\ recLog[k].level = 3
                /\ maxdist = 4
                /\ failedBefore(u, 3)
                /\ ~recordedBy(u, k)
                /\ fetchedAt(u, 4)

\* a URI scheme: a letter, then letters, digits, "+", "-" or "."
SchemeChars ==
    {LowerCase[i] : i \in 1..Len(LowerCase)} \cup {UpperCase[i] : i \in 1..Len(UpperCase)}
    \cup Digits \cup {"+", "-", "."}

\* href begins with a scheme (http, https or any other) and its colon
beginsWithScheme(href) ==
    \E n \in 2..Len(href) :
        /\ href[n] = ":"
        /\ href[1] \in SchemeChars \ (Digits \cup {"+", "-", "."})
        /\ \A k \in 1..(n - 1) : href[k] \in SchemeChars

\* C17's absolutize: href as it is when it begins with a scheme, else siteRoot
\* and href joined with exactly one "/" between them
absolutize(siteRoot, href) ==
    IF beginsWithScheme(href) THEN href
    ELSE LET left == IF siteRoot # <<>> /\ siteRoot[Len(siteRoot)] = "/"
                     THEN SubSeq(siteRoot, 1, Len(siteRoot) - 1) ELSE siteRoot
             right == IF href # <<>> /\ href[1] = "/" THEN Tail(href) ELSE href
         IN  left \o sSlash \o right

\* C17's canonicalizeHost: "www." put right after "://" when the string has no
\* "www."
canonicalizeHost(url) ==
    IF \E i \in 1..(Len(url) - 3) : SubSeq(url, i, i + 3) = sWww THEN url
    ELSE IF \E i \in 1..(Len(url) - 2) : SubSeq(url, i, i + 2) = sSep
         THEN LET i == CHOOSE i \in 1..(Len(url) - 2) :
                           /\ SubSeq(url, i, i + 2) = sSep
                           /\ \A j \in 1..(i - 1) : SubSeq(url, j, j + 2) # sSep
              IN  SubSeq(url, 1, i + 2) \o sWww \o SubSeq(url, i + 3, Len(url))
         ELSE url

\* C17's stripQuery: the string up to its first "?"
stripQuery(url) ==
    IF \E i \in 1..Len(url) : url[i] = "?"
    THEN SubSeq(url, 1, (CHOOSE i \in 1..Len(url) :
                            url[i] = "?" /\ \A j \in 1..(i - 1) : url[j] # "?") - 1)
    ELSE url

\* C17: for every href that processPage hands to the normalizer,
\* processHrefValue(siteRoot, href) is
\* stripQuery(canonicalizeHost(absolutize(siteRoot, href))), absolutize leaving
\* the href unchanged exactly when it begins with a scheme.
C17_NormalizeIsComposition ==
    probe.done =>
        \A i \in 1..Len(probe.anchors) :
            probe.normalized[i] # Null =>
                probe.normalized[i][1]
                    = stripQuery(canonicalizeHost(absolutize(probe.mainUrl, probe.anchors[i])))

C18_Step ==
    /\ Len(visitedUrls') >= Len(visitedUrls)
    /\ \A i \in 1..Len(visitedUrls) : visitedUrls'[i] = visitedUrls[i]
    /\ \A k \in DOMAIN stackedOutput :
           /\ k \in DOMAIN stackedOutput'
           /\ stackedOutput'[k].url = stackedOutput[k].url
           /\ stackedOutput'[k].title = stackedOutput[k].title
           /\ stackedOutput'[k].texts = stackedOutput[k].texts

\* C18: across every step, a URL that is in Visited stays in Visited (at its
\* place), and a record that is in the Output Store stays there under the same
\* id with the same url, title and texts.
C18_VisitedAndStoreOnlyGrow == [][C18_Step]_vars

\* records were stored at three levels, the last one after a failed fetch
C18_Witness ==
    /\ Len(visitedUrls) >= 3
    /\ Cardinality(DOMAIN stackedOutput) >= 3
    /\ \E j, k \in 1..Len(recLog) : recLog[j].level = 2 /\ recLog[k].level = 3
    /\ \E f \in 1..Len(issueLog) : issueLog[f].state = "failed" /\ issueLog[f].level = 2

\* The crawl replayed from the link graph and the outcome (ok or failed) of
\* every fetch alone: Visited (the record urls in id order), the next-level
\* Frontier and the level after the results of the first n fetches issued have
\* been merged one by one in the order of issue.  The order in which the
\* fetches completed does not enter.
RECURSIVE replayMerge(_)
replayMerge(n) ==
    IF n = 0 THEN [visited |-> <<>>, next |-> <<>>, level |-> 1]
    ELSE LET prev == replayMerge(n - 1)
             f == issueLog[n]
             base == IF f.level > prev.level
                     THEN [visited |-> prev.visited, next |-> <<>>, level |-> f.level]
                     ELSE prev
         IN  IF f.state = "ok"
             THEN [visited |-> Append(base.visited, f.url),
                   next |-> admitLinks(Append(base.visited, f.url), base.next,
                                       linksOf(f.url)),
                   level |-> base.level]
             ELSE base

\* the number of fetches whose result has been merged
mergedCount == Cardinality({k \in 1..Len(issueLog) : issueLog[k].merged})

\* C19: for a given link graph and given outcomes of the fetches, the Output
\* Store (ids, urls, their order), Visited and the Frontier of every level are
\* those of the replay that merges the results in the order of issue, whatever
\* the order in which the fetches of a batch completed (the Frontier of a level
\* is compared when the level before it has ended).
C19_CompletionOrderIrrelevant ==
    crawling =>
        LET r == replayMerge(mergedCount)
        IN  /\ \A k \in 1..mergedCount : issueLog[k].merged
            /\ visitedUrls = r.visited
            /\ DOMAIN stackedOutput = 1..Len(r.visited)
            /\ \A k \in DOMAIN stackedOutput : stackedOutput[k].url = r.visited[k]
            /\ pc \in {"for", "await", "merge"} =>
                   newUrlsToVisit = IF r.level = currentLevel THEN r.next ELSE <<>>
            /\ (pc \in {"while", "returned"} /\ currentLevel > 1) =>
                   urlsToVisit = IF r.level = currentLevel - 1 THEN r.next ELSE <<>>

\* a crawl has ended in which the two pages of a batch were both stored, the
\* one issued first having completed last
C19_Witness ==
    /\ files # <<>>
    /\ Len(recLog) >= 3
    /\ \E j, k \in 1..Len(recLog) :
           /\ sameBatch(recLog[j], recLog[k])
           /\ recLog[j].pos < recLog[k].pos
           /\ recLog[j].fetch.rank > recLog[k].fetch.rank

\* C20: between merge steps the Visited list is the sequence of the record urls
\* in id order: it is as long as there are records, that number is the id
\* counter minus 1, and its i-th element is the url of the record with id i.
C20_VisitedIsRecordUrls ==
    crawling =>
        /\ Len(visitedUrls) = Cardinality(DOMAIN stackedOutput)
        /\ Cardinality(DOMAIN stackedOutput) = autoincrmentId - 1
        /\ \A i \in 1..Len(visitedUrls) :
               /\ i \in DOMAIN stackedOutput
               /\ stackedOutput[i].url = visitedUrls[i]

\* a URL has been stored a second time, after a fetch had failed: Visited
\* holds it twice, at the places of its two ids
C20_Witness ==
    /\ \E i, j \in 1..Len(visitedUrls) : i < j /\ visitedUrls[i] = visitedUrls[j]
    /\ \E f \in 1..Len(issueLog) : issueLog[f].state = "failed"
    /\ Len(visitedUrls) >= 4

\* the string has the substring "www."
hasWww(str) == \E i \in 1..(Len(str) - 3) : SubSeq(str, i, i + 3) = sWww

\* the hrefs without "www." that the page's anchors hand to the normalizer
plainHrefs == {probe.anchors[i] : i \in {j \in 1..Len(probe.anchors) :
                                            probe.normalized[j] # Null
                                            /\ ~hasWww(probe.anchors[j])}}

\* what the normalizer makes of the page's hrefs that have "www."
wwwHrefTargets ==
    {processHrefValue(probe.mainUrl, probe.anchors[i]) :
        i \in {j \in 1..Len(probe.anchors) : hasWww(probe.anchors[j])}}

\* for a seed without "www.": no href without "www." passes the containment
\* test, and only hrefs with "www." put a link on the page's list and in the
\* Frontier
onlyWwwHrefsFollowed ==
    /\ \A h \in plainHrefs : ~startsWith(processHrefValue(probe.mainUrl, h), probe.mainUrl)
    /\ \A i \in 1..Len(probe.anchors) :
           (probe.normalized[i] # Null /\ ~hasWww(probe.anchors[i])) =>
               /\ probe.normalized[i][1] = processHrefValue(probe.mainUrl, probe.anchors[i])
               /\ ~startsWith(probe.normalized[i][1], probe.mainUrl)
    /\ \A i \in 1..Len(probe.links) : probe.links[i] \in wwwHrefTargets
    /\ \A i \in 1..Len(probe.frontier) : probe.frontier[i] \in wwwHrefTargets

\* C21 as stated: when the seed URL does not contain "www.", every href that
\* does not contain "www." normalizes to a URL that fails the prefix test
\* against the seed, so that only hrefs containing "www." enter a Frontier.
C21_NoWwwSeedFollowsOnlyWwwHrefs ==
    (probe.done /\ ~hasWww(probe.mainUrl)) => onlyWwwHrefsFollowed

\* the seed is still a prefix of itself once "www." is put after its "://":
\* what follows "://" is w, ww or www
seedPrefixOfWwwForm(seed) ==
    \E i \in 1..(Len(seed) - 2) :
        /\ SubSeq(seed, i, i + 2) = sSep
        /\ \A j \in 1..(i - 1) : SubSeq(seed, j, j + 2) # sSep
        /\ LET rest == SubSeq(seed, i + 3, Len(seed))
           IN  Len(rest) <= 3 /\ rest = SubSeq(sWww \o rest, 1, Len(rest))

\* C21 amended: when the seed URL does not contain "www." and what follows its
\* "://" is not w, ww or www, every href that does not contain "www."
\* normalizes to a URL that fails the prefix test against the seed, so that
\* only hrefs containing "www." enter a Frontier.
C21_NoWwwSeedExceptWHosts ==
    (probe.done /\ ~hasWww(probe.mainUrl) /\ ~seedPrefixOfWwwForm(probe.mainUrl))
        => onlyWwwHrefsFollowed

\* under the seed http://x/ a page with a relative link and a link beginning
\* with www. has been processed: only the second is in the Frontier
C21_Witness ==
    /\ probe.done
    /\ probe.mainUrl = uBare
    /\ probe.anchors = <<hA, hWwwRel>>
    /\ probe.normalized = <<<<uSeed \o hA>>, <<uBare \o hWwwRel>>>>
    /\ probe.frontier = <<uBare \o hWwwRel>>
====
